---- MODULE Spec2Model ----
(***************************************************************************)
(* mysqlfuse: a MySQL schema projected as a FUSE tree.  The model covers   *)
(* the process-wide index tableMap (a sync.Map of *sync.Map), the inode    *)
(* tree built by Lookup, and the handlers Readdir and Lookup of MySQLRoot, *)
(* run by concurrent request goroutines whose steps are the individual     *)
(* sync.Map operations.                                                    *)
(***************************************************************************)
EXTENDS Integers, Sequences, FiniteSets, TLC

\* ------------------------------------------------------------------ bounds
NumWorkers == 2          \* request goroutines served at the same time
MaxLen == 2              \* rows in one backend result set
MaxId == 1               \* row identifiers are 1..MaxId

Workers == 1 .. NumWorkers
\* The second name is a, backtick, #: MySQL accepts every character but NUL in
\* a quoted table name, and the name is one path component.  A string here
\* cannot hold a backtick: it is written %60.
TableSeq == <<"a", "a%60#">>
Tables == {TableSeq[i] : i \in DOMAIN TableSeq}   \* names the backend may report
Ids == 1 .. MaxId

\* --------------------------------------------------------------- constants
fileMode == 33188        \* 0644 | S_IFREG
dirMode == 16877         \* 0755 | S_IFDIR

None == "none"

\* ----------------------------------------------------------------- helpers
SeqsUpTo(S, n) == UNION {[1 .. k -> S] : k \in 0 .. n}

Range(s) == {s[i] : i \in DOMAIN s}

RECURSIVE SelectRowsAbort(_)
\* faulty variant of the row loop: break instead of continue on a Scan error
SelectRowsAbort(rows) ==
    IF rows = <<>> THEN <<>>
    ELSE IF Head(rows).ok THEN <<Head(rows).v>> \o SelectRowsAbort(Tail(rows))
    ELSE <<>>

RECURSIVE SelectRows(_)
\* the rows of a result set that rows.Scan decodes, in order
SelectRows(rows) ==
    IF rows = <<>> THEN <<>>
    ELSE IF Head(rows).ok THEN <<Head(rows).v>> \o SelectRows(Tail(rows))
    ELSE SelectRows(Tail(rows))

\* A backend answer to one query: the query fails (qerr), or it yields rows,
\* each decodable or not, and the iteration ends with or without error (rerr).
Responses(V) ==
    {[qerr |-> TRUE, rows |-> <<>>, rerr |-> FALSE]} \cup
    [qerr : {FALSE},
     rows : SeqsUpTo([v : V, ok : BOOLEAN], MaxLen),
     rerr : BOOLEAN]

\* a sequence without repetition
Unique(s) == \A i, j \in DOMAIN s : s[i] = s[j] => i = j

\* SHOW tables: table names are unique within a schema
CatalogResponses ==
    {resp \in Responses(Tables) : Unique([i \in DOMAIN resp.rows |-> resp.rows[i].v])}

\* SELECT id FROM `t`: nothing makes the ids unique
RecordResponses == Responses(Ids)

\* getTables: <<tables, err>>
getTables(resp) ==
    IF resp.qerr THEN [val |-> <<>>, err |-> TRUE]
    ELSE [val |-> SelectRows(resp.rows), err |-> resp.rerr]

\* faulty variant of getRecordIDs: rows.Err() is dropped
getRecordIDsNoRowsErr(resp) ==
    IF resp.qerr THEN [val |-> <<>>, err |-> TRUE]
    ELSE [val |-> SelectRows(resp.rows), err |-> FALSE]

\* getRecordIDs: <<ids, err>>
getRecordIDs(resp) ==
    IF resp.qerr THEN [val |-> <<>>, err |-> TRUE]
    ELSE [val |-> SelectRows(resp.rows), err |-> resp.rerr]

\* fmt.Sprintf("%d.sql", id)
Sprintf(id) == ToString(id) \o ".sql"

\* filepath.Join(dir, name) for a clean dir and a single path component
Join(dir, name) == IF dir = "" THEN name ELSE dir \o "/" \o name

\* faulty variant of the naming loop: an identifier equal to the one before it
\* is left out
EntryNamesDedup(ids) ==
    LET keep == {i \in DOMAIN ids : i = 1 \/ ids[i] # ids[i - 1]}
    IN  [i \in 1 .. Cardinality(keep) |-> Sprintf(ids[i])]

\* the names the collection listing derives from the identifiers, in order
EntryNames(ids) == [i \in DOMAIN ids |-> Sprintf(ids[i])]

\* &FileIndex{path: p, name: ele}
FileIndex(p, ele) == [path |-> p, name |-> ele]

\* faulty variant of DirEntries: the list loop skips the first element
DirEntriesFromSecond(elements, mode) ==
    [i \in 1 .. (Len(elements) - 1) |-> [Name |-> elements[i + 1], Mode |-> mode]]

\* fuse.DirEntry list built from elements and the uniform mode
DirEntries(elements, mode) ==
    [i \in DOMAIN elements |-> [Name |-> elements[i], Mode |-> mode]]

\* sql.Open("mysql", r.dsn) in the OnAdd of the node at path: a new handle.
\* Handles opened by two inodes of one path are not told apart.
Open(path) == <<"db", path>>

\* the handle the mount opens in the OnAdd of the root
RootDB == Open("")

\* OnAdd of the node at path, run when the node becomes an inode: r.db = db
OnAdd(path) == Open(path)

\* faulty variant of NewInode: every child is made a directory
NewInodeDirMode(childPath, mode) ==
    [path |-> childPath, mode |-> dirMode, db |-> OnAdd(childPath)]

\* r.NewInode(ctx, NewMySQLRoot(r.dsn, r.db, r.debug), fs.StableAttr{Mode: mode})
\* at childPath: the child is built with the parent's handle, and its OnAdd,
\* run by NewInode, replaces it
NewInode(childPath, mode) ==
    [path |-> childPath, mode |-> mode, db |-> OnAdd(childPath)]

\* A string is atomic here, so the spelling of a table name is kept beside it.
BackTick == "%60"
Chars(table) == IF table = "a" THEN <<"a">> ELSE <<"a", BackTick, "#">>

\* no query text: the handler has sent nothing to the backend
NoQuery == <<>>

\* the text of getTables' query
ShowTables == <<"SHOW tables">>

\* fmt.Sprintf("SELECT id FROM `%s`", table): the name is pasted as it is
QuerySprintf(table) == <<"SELECT id FROM ", BackTick>> \o Chars(table) \o <<BackTick>>

RECURSIVE QuotedEnd(_, _)
\* The backend's lexer on the text after an opening backtick, from position i:
\* the position of the closing backtick (a doubled backtick is a literal one),
\* or 0 when the quoted identifier is not closed.
QuotedEnd(cs, i) ==
    IF i > Len(cs) THEN 0
    ELSE IF cs[i] # BackTick THEN QuotedEnd(cs, i + 1)
    ELSE IF i < Len(cs) /\ cs[i + 1] = BackTick THEN QuotedEnd(cs, i + 2)
    ELSE i

RECURSIVE Unescape(_)
\* the identifier a quoted text spells: a doubled backtick is one backtick
Unescape(cs) ==
    IF cs = <<>> THEN <<>>
    ELSE IF Len(cs) >= 2 /\ cs[1] = BackTick /\ cs[2] = BackTick
    THEN <<BackTick>> \o Unescape(SubSeq(cs, 3, Len(cs)))
    ELSE <<cs[1]>> \o Unescape(Tail(cs))

\* The backend's reading of a query text "SELECT id FROM `...": the spelling of
\* the table it reads, or rejected.  After the closing backtick the statement must end or
\* go on with a # comment (texts over letters, backtick and #).
Parse(q) ==
    LET cs == SubSeq(q, 3, Len(q))
        e == QuotedEnd(cs, 1)
    IN  IF e = 0 THEN [rejected |-> TRUE, table |-> <<>>]
        ELSE IF e < Len(cs) /\ cs[e + 1] # "#" THEN [rejected |-> TRUE, table |-> <<>>]
        ELSE [rejected |-> FALSE, table |-> Unescape(SubSeq(cs, 1, e - 1))]

\* what the backend may answer to the text q of getRecordIDs' query: a text it
\* rejects is a query error
Answers(q) ==
    IF Parse(q).rejected THEN {resp \in RecordResponses : resp.qerr}
    ELSE RecordResponses

\* names the host may ask Lookup for (single path components)
LookupNames == Tables \cup {Sprintf(i) : i \in Ids} \cup {"missing"}

\* ------------------------------------------------------------------- state
VARIABLES
    tableMap,    \* var tableMap sync.Map: table name -> reference of a sync.Map
    heap,        \* the sync.Map objects alive: reference -> (path -> FileIndex)
    nodes,       \* inodes created by Lookup: records [path, mode, db]
    th,          \* per request goroutine: position and locals of its handler
    hist         \* history of the backend calls, recorded by Record (SeqSpec)

vars == <<tableMap, heap, nodes, th, hist>>

\* A goroutine's record: pc, the handler (op) and the node it runs on (path),
\* Lookup's name, Readdir's elements, mode and list, the *sync.Map it loaded
\* (m), the progress of its Range (pre: keys present when Range began, seen:
\* keys visited) and of its store loop (i), the errno and inode it returns,
\* late: a later Readdir of the same directory has fetched meanwhile, and
\* query: the text the handler sent to the backend.
Idle ==
    [pc |-> "idle", op |-> None, path |-> "", name |-> "", elements |-> <<>>,
     m |-> 0, pre |-> {}, seen |-> {}, i |-> 0, list |-> <<>>,
     errno |-> None, mode |-> 0, child |-> None, late |-> FALSE,
     query |-> NoQuery]

\* a panic in a request goroutine ends the process
Crashed == \E w \in Workers : th[w].pc = "panic"

\* A handler that has its reply returns it before any other goroutine moves:
\* the return touches nothing shared.
Running == ~Crashed /\ \A w \in Workers : th[w].pc # "done"

\* a request is handed to the first free goroutine
Free(w) == th[w].pc = "idle" /\ \A v \in Workers : v < w => th[v].pc # "idle"

\* sync.Map.Delete / Store / Load on a map held as a function
MapDelete(f, k) == [x \in (DOMAIN f) \ {k} |-> f[x]]
MapStore(f, k, v) == [x \in (DOMAIN f) \cup {k} |-> IF x = k THEN v ELSE f[x]]
MapHas(f, k) == k \in DOMAIN f

\* References are addresses: only their equality is observable.  The sync.Map
\* the index holds for the k-th table name has address k.  One that left the
\* index while goroutines still hold it has the address Orphan(w) of the first
\* goroutine w holding it; one that nobody holds is collected.
Addr(t) == CHOOSE k \in DOMAIN TableSeq : TableSeq[k] = t
Orphan(w) == Len(TableSeq) + w
Min(S) == CHOOSE x \in S : \A y \in S : x <= y
Holding(t, r) == {w \in Workers : t[w].m = r}

\* objects and goroutines once the object at address r has left the index
UnlinkHeap(h, t, r) ==
    IF Holding(t, r) = {} THEN MapDelete(h, r)
    ELSE MapStore(MapDelete(h, r), Orphan(Min(Holding(t, r))), h[r])
UnlinkTh(t, r) ==
    [w \in Workers |->
        IF t[w].m = r THEN [t[w] EXCEPT !.m = Orphan(Min(Holding(t, r)))] ELSE t[w]]

\* objects and goroutines once goroutine w has dropped its reference
ReleaseHeap(h, t, w) ==
    LET r == t[w].m
        rest == Holding(t, r) \ {w}
    IN  IF r <= Len(TableSeq) THEN h
        ELSE IF rest = {} THEN MapDelete(h, r)
        ELSE MapStore(MapDelete(h, r), Orphan(Min(rest)), h[r])
ReleaseTh(t, w) ==
    LET r == t[w].m
        rest == Holding(t, r) \ {w}
    IN  [v \in Workers |->
            IF v = w THEN [t[v] EXCEPT !.m = 0]
            ELSE IF r > Len(TableSeq) /\ v \in rest
            THEN [t[v] EXCEPT !.m = Orphan(Min(rest))]
            ELSE t[v]]

\* &sync.Map{} about to be stored under table name t
NewMap(t) == Addr(t)

\* sync.Map.Range may return: every key it had to visit is visited or gone
RangeOver(f, pre, seen) == (pre \ seen) \cap DOMAIN f = {}

\* the Entry Set (keys) the index holds for table t
Entries(t) == DOMAIN heap[tableMap[t]]

\* the index keys a collection listing stores for the names
EntryPaths(t, names) == {Join(t, names[i]) : i \in DOMAIN names}

\* the Namespace Index: every table name the index holds with its entries
IndexOf(tm, h) == [t \in DOMAIN tm |-> h[tm[t]]]
Index == IndexOf(tableMap, heap)

\* no backend answer at hand, no listing completed
NoResp == [qerr |-> FALSE, rows |-> <<>>, rerr |-> FALSE, none |-> TRUE]
NoListing == [path |-> None, names |-> {}, index |-> <<>>]

NoHist ==
    [lastTables |-> {}, lastEntries |-> [t \in Tables |-> {}],
     stale |-> [t \in Tables |-> {}], prev |-> <<>>,
     resp |-> NoResp, at |-> <<>>, everTables |-> {},
     done |-> NoListing, before |-> NoListing]

Init ==
    /\ tableMap = <<>>
    /\ heap = <<>>
    /\ nodes = {}
    /\ th = [w \in Workers |-> Idle]
    /\ hist = NoHist

\* ------------------------------------------------------------ root listing
\* Readdir on the root: getTables (ENOENT on error), then tableMap.Range
\* begins: the keys present now will be visited
RootBegin(w) ==
    /\ Running
    /\ Free(w)
    /\ \E resp \in CatalogResponses :
         LET r == getTables(resp)
             t0 == [Idle EXCEPT !.op = "readdir", !.query = ShowTables]
         IN
         IF r.err
         THEN th' = [th EXCEPT ![w] = [t0 EXCEPT !.pc = "done", !.errno = "ENOENT"]]
         ELSE th' = [th EXCEPT ![w] = [t0 EXCEPT !.pc = "range", !.mode = dirMode,
                                                 !.elements = r.val,
                                                 !.pre = DOMAIN tableMap]]
    /\ UNCHANGED <<tableMap, heap, nodes>>

\* faulty variant of the Range callback: it deletes nothing
RootRangeSkip(w) ==
    /\ Running
    /\ th[w].pc = "range"
    /\ th[w].path = ""
    /\ \E k \in (DOMAIN tableMap) \ th[w].seen :
         th' = [th EXCEPT ![w].seen = @ \cup {k}]
    /\ UNCHANGED <<tableMap, heap, nodes>>

\* one call of the Range callback: tableMap.Delete(key).  Range visits no key
\* twice and may or may not visit a key stored after it began.
RootRangeDelete(w) ==
    /\ Running
    /\ th[w].pc = "range"
    /\ th[w].path = ""
    /\ \E k \in (DOMAIN tableMap) \ th[w].seen :
         /\ tableMap' = MapDelete(tableMap, k)
         /\ heap' = UnlinkHeap(heap, th, tableMap[k])
         /\ th' = [UnlinkTh(th, tableMap[k]) EXCEPT ![w].seen = @ \cup {k}]
    /\ UNCHANGED nodes

\* Range returns
RootRangeEnd(w) ==
    /\ Running
    /\ th[w].pc = "range"
    /\ th[w].path = ""
    /\ RangeOver(tableMap, th[w].pre, th[w].seen)
    /\ th' = [th EXCEPT ![w].pc = "store", ![w].seen = {}, ![w].i = 1]
    /\ UNCHANGED <<tableMap, heap, nodes>>

\* tableMap.Store(ele, &sync.Map{}) for the next element
RootStore(w) ==
    /\ Running
    /\ th[w].pc = "store"
    /\ th[w].path = ""
    /\ th[w].i <= Len(th[w].elements)
    /\ LET ele == th[w].elements[th[w].i]
           r == NewMap(ele)
       IN  /\ tableMap' = MapStore(tableMap, ele, r)
           /\ heap' = MapStore(UnlinkHeap(heap, th, r), r, <<>>)
           /\ th' = [UnlinkTh(th, r) EXCEPT ![w].i = @ + 1]
    /\ UNCHANGED nodes

\* ------------------------------------------------------ collection listing
\* Readdir on a table directory: getRecordIDs (ENOENT on error), the names are
\* built, value, _ := tableMap.Load(path), m := value.(*sync.Map) panics on a
\* miss, and m.Range begins
CollBegin(w) ==
    /\ Running
    /\ Free(w)
    /\ \E n \in nodes :
         /\ n.mode = dirMode
         /\ \E resp \in Answers(QuerySprintf(n.path)) :
              LET r == getRecordIDs(resp)
                  t0 == [Idle EXCEPT !.op = "readdir", !.path = n.path,
                                     !.query = QuerySprintf(n.path)]
                  t1 == [t0 EXCEPT !.mode = fileMode, !.elements = EntryNames(r.val)]
                  others == [v \in Workers |->
                               IF th[v].op = "readdir" /\ th[v].path = n.path
                               THEN [th[v] EXCEPT !.late = TRUE] ELSE th[v]]
              IN
              IF r.err
              THEN th' = [th EXCEPT ![w] = [t0 EXCEPT !.pc = "done", !.errno = "ENOENT"]]
              ELSE IF MapHas(tableMap, n.path)
              THEN th' = [others EXCEPT ![w] =
                             [t1 EXCEPT !.pc = "range", !.m = tableMap[n.path],
                                        !.pre = DOMAIN heap[tableMap[n.path]]]]
              ELSE th' = [others EXCEPT ![w] = [t1 EXCEPT !.pc = "panic"]]
    /\ UNCHANGED <<tableMap, heap, nodes>>

\* faulty variant of the Range callback: it deletes nothing
CollRangeSkip(w) ==
    /\ Running
    /\ th[w].pc = "range"
    /\ th[w].path # ""
    /\ \E k \in (DOMAIN heap[th[w].m]) \ th[w].seen :
         th' = [th EXCEPT ![w].seen = @ \cup {k}]
    /\ UNCHANGED <<tableMap, heap, nodes>>

\* faulty variant of the Range callback: it clears the map of every table
CollRangeDeleteAll(w) ==
    /\ Running
    /\ th[w].pc = "range"
    /\ th[w].path # ""
    /\ \E k \in (DOMAIN heap[th[w].m]) \ th[w].seen :
         /\ heap' = [r \in DOMAIN heap |-> <<>>]
         /\ th' = [th EXCEPT ![w].seen = @ \cup {k}]
    /\ UNCHANGED <<tableMap, nodes>>

\* one call of the Range callback: m.Delete(k)
CollRangeDelete(w) ==
    /\ Running
    /\ th[w].pc = "range"
    /\ th[w].path # ""
    /\ \E k \in (DOMAIN heap[th[w].m]) \ th[w].seen :
         /\ heap' = [heap EXCEPT ![th[w].m] = MapDelete(@, k)]
         /\ th' = [th EXCEPT ![w].seen = @ \cup {k}]
    /\ UNCHANGED <<tableMap, nodes>>

\* Range returns
CollRangeEnd(w) ==
    /\ Running
    /\ th[w].pc = "range"
    /\ th[w].path # ""
    /\ RangeOver(heap[th[w].m], th[w].pre, th[w].seen)
    /\ th' = [th EXCEPT ![w].pc = "store", ![w].seen = {}, ![w].i = 1]
    /\ UNCHANGED <<tableMap, heap, nodes>>

\* faulty variant of the store loop: the first element is not stored
CollStoreFromSecond(w) ==
    /\ Running
    /\ th[w].pc = "store"
    /\ th[w].path # ""
    /\ th[w].i <= Len(th[w].elements)
    /\ LET ele == th[w].elements[th[w].i]
           p == Join(th[w].path, ele)
       IN  heap' = IF th[w].i = 1 THEN heap
                   ELSE [heap EXCEPT ![th[w].m] = MapStore(@, p, FileIndex(p, ele))]
    /\ th' = [th EXCEPT ![w].i = @ + 1]
    /\ UNCHANGED <<tableMap, nodes>>

\* p := filepath.Join(path, ele); m.Store(p, &FileIndex{path: p, name: ele})
CollStore(w) ==
    /\ Running
    /\ th[w].pc = "store"
    /\ th[w].path # ""
    /\ th[w].i <= Len(th[w].elements)
    /\ LET ele == th[w].elements[th[w].i]
           p == Join(th[w].path, ele)
       IN  heap' = [heap EXCEPT ![th[w].m] = MapStore(@, p, FileIndex(p, ele))]
    /\ th' = [th EXCEPT ![w].i = @ + 1]
    /\ UNCHANGED <<tableMap, nodes>>

\* the reply of either listing: one DirEntry per element, fs.OK
ReaddirReply(w) ==
    /\ Running
    /\ th[w].pc = "store"
    /\ th[w].i > Len(th[w].elements)
    /\ th' = [th EXCEPT ![w].pc = "done",
                        ![w].list = DirEntries(th[w].elements, th[w].mode),
                        ![w].errno = "OK"]
    /\ UNCHANGED <<tableMap, heap, nodes>>

\* ------------------------------------------------------------------ lookup
\* faulty variant of Lookup on the root: the result of Load is not looked at
LookupRootUnchecked(w) ==
    /\ Running
    /\ Free(w)
    /\ \E name \in LookupNames :
         LET t0 == [Idle EXCEPT !.pc = "done", !.op = "lookup", !.name = name] IN
         /\ th' = [th EXCEPT ![w] =
                      [t0 EXCEPT !.mode = dirMode, !.errno = "OK",
                                 !.child = NewInode(Join("", name), dirMode)]]
         /\ nodes' = nodes \cup {NewInode(Join("", name), dirMode)}
    /\ UNCHANGED <<tableMap, heap>>

\* Lookup on the root: tableMap.Load(name), then NewInode with dirMode
LookupRoot(w) ==
    /\ Running
    /\ Free(w)
    /\ \E name \in LookupNames :
         LET t0 == [Idle EXCEPT !.pc = "done", !.op = "lookup", !.name = name] IN
         IF MapHas(tableMap, name)
         THEN /\ th' = [th EXCEPT ![w] =
                           [t0 EXCEPT !.mode = dirMode, !.errno = "OK",
                                      !.child = NewInode(Join("", name), dirMode)]]
              /\ nodes' = nodes \cup {NewInode(Join("", name), dirMode)}
         ELSE /\ th' = [th EXCEPT ![w] = [t0 EXCEPT !.errno = "ENOENT"]]
              /\ UNCHANGED nodes
    /\ UNCHANGED <<tableMap, heap>>

\* faulty variant of Lookup below the root: a miss of tableMap.Load is taken
\* for a hit
LookupLoadDirUnchecked(w) ==
    /\ Running
    /\ Free(w)
    /\ \E n \in nodes, name \in LookupNames :
         LET t0 == [Idle EXCEPT !.op = "lookup", !.path = n.path, !.name = name] IN
         /\ IF MapHas(tableMap, n.path)
            THEN /\ th' = [th EXCEPT ![w] = [t0 EXCEPT !.pc = "lk_loaded",
                                                       !.mode = fileMode,
                                                       !.m = tableMap[n.path]]]
                 /\ UNCHANGED nodes
            ELSE /\ th' = [th EXCEPT ![w] =
                             [t0 EXCEPT !.pc = "done", !.errno = "OK", !.mode = fileMode,
                                        !.child = NewInode(Join(n.path, name), fileMode)]]
                 /\ nodes' = nodes \cup {NewInode(Join(n.path, name), fileMode)}
    /\ UNCHANGED <<tableMap, heap>>

\* Lookup on an inode below the root (a table directory or a file), first
\* half: v, ok := tableMap.Load(currentDir)
LookupLoadDir(w) ==
    /\ Running
    /\ Free(w)
    /\ \E n \in nodes, name \in LookupNames :
         LET t0 == [Idle EXCEPT !.op = "lookup", !.path = n.path, !.name = name] IN
         /\ IF MapHas(tableMap, n.path)
            THEN th' = [th EXCEPT ![w] = [t0 EXCEPT !.pc = "lk_loaded", !.mode = fileMode,
                                                    !.m = tableMap[n.path]]]
            ELSE th' = [th EXCEPT ![w] = [t0 EXCEPT !.pc = "done", !.errno = "ENOENT"]]
    /\ UNCHANGED <<tableMap, heap, nodes>>

\* faulty variant of the second half: a miss empties the directory's map
LookupLoadEntryEvict(w) ==
    /\ Running
    /\ th[w].pc = "lk_loaded"
    /\ LET childPath == Join(th[w].path, th[w].name)
           hit == MapHas(heap[th[w].m], childPath)
       IN  /\ th' = [th EXCEPT ![w].pc = "done",
                               ![w].errno = IF hit THEN "OK" ELSE "ENOENT",
                               ![w].mode = IF hit THEN fileMode ELSE 0,
                               ![w].child = IF hit THEN NewInode(childPath, fileMode)
                                            ELSE None]
           /\ nodes' = IF hit THEN nodes \cup {NewInode(childPath, fileMode)} ELSE nodes
           /\ heap' = IF hit THEN heap ELSE [heap EXCEPT ![th[w].m] = <<>>]
    /\ UNCHANGED tableMap

\* second half: m.Load(childPath), then NewInode with fileMode
LookupLoadEntry(w) ==
    /\ Running
    /\ th[w].pc = "lk_loaded"
    /\ LET childPath == Join(th[w].path, th[w].name)
           hit == MapHas(heap[th[w].m], childPath)
       IN  /\ th' = [th EXCEPT ![w].pc = "done",
                               ![w].errno = IF hit THEN "OK" ELSE "ENOENT",
                               ![w].mode = IF hit THEN fileMode ELSE 0,
                               ![w].child = IF hit THEN NewInode(childPath, fileMode)
                                            ELSE None]
           /\ nodes' = IF hit THEN nodes \cup {NewInode(childPath, fileMode)} ELSE nodes
    /\ UNCHANGED <<tableMap, heap>>

\* ----------------------------------------------------------------- opendir
\* Opendir on the root or on a table directory: fs.OK
Opendir(w) ==
    /\ Running
    /\ Free(w)
    /\ \E path \in {""} \cup {n.path : n \in {x \in nodes : x.mode = dirMode}} :
         th' = [th EXCEPT ![w] = [Idle EXCEPT !.pc = "done", !.op = "opendir",
                                              !.path = path, !.errno = "OK"]]
    /\ UNCHANGED <<tableMap, heap, nodes>>

\* the handler has returned; the goroutine serves the next request
Return(w) ==
    /\ ~Crashed
    /\ th[w].pc = "done"
    /\ heap' = ReleaseHeap(heap, th, w)
    /\ th' = [ReleaseTh(th, w) EXCEPT ![w] = Idle]
    /\ UNCHANGED <<tableMap, nodes>>

\* ----------------------------------------------------------------- history
\* What the backend calls returned, as an observer of a step of goroutine w:
\*   lastTables  names of the last successful getTables call (none at mount)
\*   lastEntries[t]  keys built from the last successful getRecordIDs call for t
\*   stale[t]    keys of t's Entry Set when that call returned which the call
\*               did not return
\*   prev        the index (table -> keys) when the last root rebuild began
\*   resp        the backend's answer to the query of the listing being served
\*   at          the index when the listing being served began
\*   everTables  every name a successful getTables call has returned
\*   done, before  the last two listings that replied: directory, names and
\*               the index at the reply
Began(w) == th[w].pc = "idle" /\ th'[w].op = "readdir" /\ th'[w].mode # 0

\* a Readdir has made its backend call, whatever the outcome
Called(w) == th[w].pc = "idle" /\ th'[w].op = "readdir"

\* a Readdir has its reply list
Replied(w) == th[w].pc = "store" /\ th'[w].pc = "done"

\* the backend answer resp explains what the Readdir did after its call
Fits(w, resp) ==
    LET r == IF th'[w].path = "" THEN getTables(resp) ELSE getRecordIDs(resp)
        names == IF th'[w].path = "" THEN r.val ELSE EntryNames(r.val)
    IN  /\ r.err <=> (th'[w].pc = "done")
        /\ ~r.err => th'[w].elements = names

\* the history once the results of a successful call are noted
Noted(w) ==
    IF th'[w].path = ""
    THEN [hist EXCEPT !.lastTables = Range(th'[w].elements),
                      !.prev = [t \in DOMAIN tableMap |-> Entries(t)],
                      !.everTables = @ \cup Range(th'[w].elements)]
    ELSE LET t == th'[w].path
             new == EntryPaths(t, th'[w].elements)
         IN  [hist EXCEPT
                !.lastEntries[t] = new,
                !.stale[t] = IF MapHas(tableMap, t) THEN Entries(t) \ new
                             ELSE {}]

Record(w) ==
    IF Called(w)
    THEN \E resp \in (IF th'[w].path = "" THEN CatalogResponses
                      ELSE Answers(th'[w].query)) :
            /\ Fits(w, resp)
            /\ hist' = [(IF Began(w) THEN Noted(w) ELSE hist) EXCEPT
                           !.resp = [qerr |-> resp.qerr, rows |-> resp.rows,
                                     rerr |-> resp.rerr, none |-> FALSE],
                           !.at = Index]
    ELSE IF Replied(w)
    THEN hist' = [hist EXCEPT
                    !.before = hist.done,
                    !.done = [path |-> th[w].path, names |-> Range(th[w].elements),
                              index |-> IF th[w].path = "" THEN <<>> ELSE Index]]
    ELSE IF th[w].pc = "done" /\ th'[w].pc = "idle" /\ th[w].op = "readdir"
    THEN hist' = [hist EXCEPT !.resp = NoResp, !.at = <<>>]
    ELSE UNCHANGED hist

\* ------------------------------------------------------------ specification
Step(w) ==
    \/ RootBegin(w)
    \/ RootRangeDelete(w)
    \/ RootRangeEnd(w)
    \/ RootStore(w)
    \/ CollBegin(w)
    \/ CollRangeDelete(w)
    \/ CollRangeEnd(w)
    \/ CollStore(w)
    \/ ReaddirReply(w)
    \/ LookupRoot(w)
    \/ LookupLoadDir(w)
    \/ LookupLoadEntry(w)
    \/ Opendir(w)
    \/ Return(w)

\* request goroutines interleave freely; no history is kept
Next == \E w \in Workers : Step(w) /\ UNCHANGED hist

Spec == Init /\ [][Next]_vars

\* requests served one after the other: a handler starts only when none runs
SeqNext ==
    \E w \in Workers :
        /\ \A v \in Workers \ {w} : th[v].pc = "idle"
        /\ Step(w)
        /\ Record(w)

SeqSpec == Init /\ [][SeqNext]_vars

TypeOK ==
    /\ DOMAIN tableMap \subseteq Tables
    /\ \A t \in DOMAIN tableMap : tableMap[t] = Addr(t) /\ tableMap[t] \in DOMAIN heap
    /\ \A w \in Workers : th[w].m = 0 \/ th[w].m \in DOMAIN heap

\* ------------------------------------------------------------------ claims
\* a handler that has its reply
RootListed(w) ==
    th[w].pc = "done" /\ th[w].op = "readdir" /\ th[w].path = "" /\ th[w].errno = "OK"
CollListed(w) ==
    th[w].pc = "done" /\ th[w].op = "readdir" /\ th[w].path # "" /\ th[w].errno = "OK"
RootLookedUp(w) == th[w].pc = "done" /\ th[w].op = "lookup" /\ th[w].path = ""
CollLookedUp(w) == th[w].pc = "done" /\ th[w].op = "lookup" /\ th[w].path \in Tables

\* C1: under any interleaving of lookups and listings no handler panics; every
\* lookup ends in a hit or a miss and every listing in a reply or an error
\* code, also when a collection listing finds its key absent from the index.
C1_NoFault ==
    \A w \in Workers :
        /\ th[w].pc # "panic"
        /\ th[w].pc = "done" => th[w].errno \in {"OK", "ENOENT"}

\* C2: with requests served one after the other, a Lookup on the root for name
\* n succeeds iff n is among the names the last successful getTables call of a
\* root listing returned; before any root listing it fails.
C2_RootLookup ==
    \A w \in Workers :
        RootLookedUp(w) =>
            ((th[w].errno = "OK") <=>
                (th[w].name \in hist.lastTables))

\* C2 witness: a root lookup misses a table that was in the index before the
\* last root listing and that the listing's getTables call did not return
C2_Witness ==
    \E w \in Workers :
        /\ RootLookedUp(w)
        /\ th[w].errno = "ENOENT"
        /\ th[w].name \in DOMAIN hist.prev
        /\ hist.lastTables # {}

\* C3: with requests served one after the other (root listings after the last
\* listing of t included), a Lookup inside table t for name x succeeds iff x is
\* "<id>.sql" for an id the last getRecordIDs call for t returned.
C3_CollLookup ==
    \A w \in Workers :
        CollLookedUp(w) =>
            ((th[w].errno = "OK") <=>
                (Join(th[w].path, th[w].name) \in hist.lastEntries[th[w].path]))

\* C4: a root listing leaves unchanged the Entry Set of every table that is in
\* the index both before and after it.
C4_RootKeepsEntries ==
    \A w \in Workers :
        RootListed(w) =>
            \A t \in (DOMAIN hist.prev) \cap (DOMAIN tableMap) :
                Entries(t) = hist.prev[t]

\* a Lookup on the root by l misses name n while the only other running
\* handler, root listing r, had n in the index when it began and stores it again
TornRootLookup(l, r) ==
    /\ th[l].pc = "idle"
    /\ th'[l].pc = "done" /\ th'[l].op = "lookup" /\ th'[l].path = ""
    /\ th'[l].errno = "ENOENT"
    /\ th[r].op = "readdir" /\ th[r].path = "" /\ th[r].pc \in {"range", "store"}
    /\ th'[l].name \in th[r].pre
    /\ th'[l].name \in Range(th[r].elements)
    /\ \A v \in Workers \ {l, r} : th[v].pc = "idle"

\* a Lookup inside a table by l misses an entry of the map m while the only
\* other running handler, listing r of that table, found the entry in m when
\* it began and stores it again
TornEntryLookup(l, r) ==
    /\ th[l].pc = "lk_loaded"
    /\ th'[l].pc = "done" /\ th'[l].errno = "ENOENT"
    /\ th[r].op = "readdir" /\ th[r].path = th[l].path
    /\ th[r].pc \in {"range", "store"}
    /\ th[r].m = th[l].m
    /\ Join(th[l].path, th[l].name) \in th[r].pre
    /\ Join(th[l].path, th[l].name) \in EntryPaths(th[r].path, th[r].elements)
    /\ \A v \in Workers \ {l, r} : th[v].pc = "idle"

\* C5: a lookup racing a rebuild sees, for a key present both before and after
\* the rebuild, the key: it is never reported NotFound in between.
C5_NoTornRead ==
    [][\A l, r \in Workers : ~TornRootLookup(l, r) /\ ~TornEntryLookup(l, r)]_vars

\* C6: when no listing is in progress, the Entry Set of table t is exactly the
\* set of names built from one getRecordIDs call, the last one: here at the
\* reply of the listing that made the last call, on the map it rebuilt.
C6_SingleCall ==
    \A w \in Workers :
        ( /\ CollListed(w)
          /\ ~th[w].late
          /\ \A v \in Workers \ {w} : th[v].op # "readdir"
          /\ MapHas(tableMap, th[w].path)
          /\ tableMap[th[w].path] = th[w].m )
        => Entries(th[w].path) = EntryPaths(th[w].path, th[w].elements)

\* C7: the root listing replies with exactly the names its getTables call
\* returned, in order, each with the directory mode.
C7_RootReply ==
    \A w \in Workers :
        RootListed(w) =>
            /\ Len(th[w].list) = Len(th[w].elements)
            /\ \A i \in DOMAIN th[w].list :
                 /\ th[w].list[i].Name = th[w].elements[i]
                 /\ th[w].list[i].Mode = dirMode

\* C7 witness: a root listing has replied with two names
C7_Witness ==
    \E w \in Workers : RootListed(w) /\ Len(th[w].list) = 2

\* C8: a listing of table t whose getRecordIDs call returned ids replies with
\* exactly the names "<id>.sql", each with the regular-file mode, on every
\* directory inode a root lookup created, whatever listings ran in between.
C8_CollReply ==
    \A w \in Workers :
        ( /\ th[w].op = "readdir" /\ th[w].path # ""
          /\ th[w].pc \in {"done", "panic"}
          /\ th[w].errno # "ENOENT" )
        => /\ th[w].pc = "done"
           /\ Len(th[w].list) = Len(th[w].elements)
           /\ \A i \in DOMAIN th[w].list :
                /\ th[w].list[i].Name = th[w].elements[i]
                /\ th[w].list[i].Mode = fileMode

\* C9: with requests served one after the other, once a listing of t has left
\* out an id whose entry was in t's Entry Set, a Lookup of that entry name
\* inside t fails until a later listing of t returns the id again.
C9_NonStale ==
    \A w \in Workers :
        (CollLookedUp(w) /\ Join(th[w].path, th[w].name) \in hist.stale[th[w].path])
            => th[w].errno = "ENOENT"

\* C9 witness: a lookup of an entry the last listing of its table left out
C9_Witness ==
    \E w \in Workers :
        CollLookedUp(w) /\ Join(th[w].path, th[w].name) \in hist.stale[th[w].path]

\* goroutine w takes the step
Acts(w) ==
    \/ th'[w].pc # th[w].pc
    \/ th'[w].seen # th[w].seen
    \/ th'[w].i # th[w].i

\* C10: no step of a listing of table t changes which tables the index holds,
\* which sync.Map each is bound to, or the Entry Set of another table.
C10_CollFrame ==
    [][\A w \in Workers :
         ( /\ Acts(w)
           /\ th'[w].op = "readdir" \/ th[w].op = "readdir"
           /\ th'[w].path # "" \/ th[w].path # "" )
         => /\ tableMap' = tableMap
            /\ \A u \in DOMAIN tableMap :
                 (u # th'[w].path /\ u # th[w].path)
                    => heap'[tableMap[u]] = heap[tableMap[u]]]_vars

\* C10 witness: a listing of one table has stored entries while another table
\* holds entries
C10_Witness ==
    \E w \in Workers :
        /\ CollListed(w)
        /\ MapHas(tableMap, th[w].path)
        /\ Entries(th[w].path) # {}
        /\ \E u \in (DOMAIN tableMap) \ {th[w].path} : Entries(u) # {}

\* the listing that goroutine w is serving has made its backend call, and the
\* history holds the backend's answer
Serving(w) == th[w].op = "readdir" /\ th[w].pc # "idle" /\ ~hist.resp.none

\* the answer at hand reports a query error or a row iteration error
Failed == hist.resp.qerr \/ hist.resp.rerr

\* the decodable rows of a result set, in order
Decoded(rows) ==
    LET good == SelectSeq(rows, LAMBDA r : r.ok)
    IN  [i \in DOMAIN good |-> good[i].v]

\* C11: with requests served one after the other, a listing whose backend call
\* fails (query error or row iteration error) returns ENOENT with no list and
\* leaves the index exactly as it was when the listing began.
C11_ErrorKeepsIndex ==
    \A w \in Workers :
        (Serving(w) /\ Failed) =>
            /\ th[w].pc = "done"
            /\ th[w].errno = "ENOENT"
            /\ th[w].list = <<>>
            /\ Index = hist.at

\* C11 witness: a table listing has failed on a row iteration error after a
\* decodable row, while the index holds entries
C11_Witness ==
    \E w \in Workers :
        /\ Serving(w) /\ th[w].path # "" /\ th[w].pc = "done"
        /\ hist.resp.rerr
        /\ \E i \in DOMAIN hist.resp.rows : hist.resp.rows[i].ok
        /\ \E t \in DOMAIN tableMap : Entries(t) # {}

\* C12: no step of a Lookup or of an Opendir changes the index, and neither
\* handler sends a query to the backend.
C12_LookupFrame ==
    [][\A w \in Workers :
         ( /\ Acts(w)
           /\ th'[w].op \in {"lookup", "opendir"} \/ th[w].op \in {"lookup", "opendir"} )
         => /\ IndexOf(tableMap', heap') = Index
            /\ th'[w].query = NoQuery]_vars

\* C12 witness: an Opendir has answered on a table directory that holds
\* entries, one of which a Lookup has resolved
C12_Witness ==
    \E w \in Workers :
        /\ th[w].pc = "done" /\ th[w].op = "opendir" /\ th[w].path # ""
        /\ MapHas(tableMap, th[w].path)
        /\ \E n \in nodes : n.mode = fileMode /\ n.path \in Entries(th[w].path)

\* a Lookup under a file inode has its reply
LeafLookedUp(w) ==
    /\ th[w].pc = "done" /\ th[w].op = "lookup"
    /\ th[w].path # "" /\ th[w].path \notin Tables

\* the paths of the table directories and of the files in them
TreePaths == Tables \cup {Join(t, Sprintf(i)) : t \in Tables, i \in Ids}

\* C13: every Lookup under a file inode returns ENOENT, and no inode lies
\* deeper than root -> table directory -> file.
C13_LeafTerminal ==
    /\ \A w \in Workers : LeafLookedUp(w) => th[w].errno = "ENOENT"
    /\ \A n \in nodes : n.path \in TreePaths

\* C13 witness: a Lookup under a file inode has answered while the file's
\* table is in the index with the file among its entries
C13_Witness ==
    \E w \in Workers :
        /\ LeafLookedUp(w)
        /\ \E t \in DOMAIN tableMap : th[w].path \in Entries(t)

\* C14: every inode uses the handle the mount opened on the root: no Lookup
\* opens another one.
C14_OneHandle ==
    /\ \A n \in nodes : n.db = RootDB
    /\ \A w \in Workers :
         (th[w].pc = "done" /\ th[w].op = "lookup" /\ th[w].errno = "OK")
            => th[w].child.db = RootDB

\* the modes of the entries of a reply list
ListModes(w) == {th[w].list[i].Mode : i \in DOMAIN th[w].list}

\* C15: a successful Lookup on the root yields a directory inode and one in a
\* table directory a regular-file inode; every inode and every entry of a
\* listing reply carries one of these two modes.
C15_Modes ==
    /\ \A w \in Workers :
         /\ (RootLookedUp(w) /\ th[w].errno = "OK") => th[w].child.mode = dirMode
         /\ (CollLookedUp(w) /\ th[w].errno = "OK") => th[w].child.mode = fileMode
         /\ ListModes(w) \subseteq {dirMode, fileMode}
    /\ \A n \in nodes :
         /\ n.mode \in {dirMode, fileMode}
         /\ n.mode = dirMode <=> n.path \in Tables

\* C15 witness: a Lookup in a table directory has yielded a file inode
C15_Witness ==
    \E w \in Workers :
        /\ CollLookedUp(w) /\ th[w].errno = "OK"
        /\ \E n \in nodes : n.mode = dirMode /\ n.path = th[w].path

\* the last two listings that replied are listings of one table with the same
\* set of names
SameListingTwice ==
    /\ hist.done.path \in Tables
    /\ hist.before.path = hist.done.path
    /\ hist.before.names = hist.done.names

\* C16: with requests served one after the other, when a table is listed twice
\* in a row with the same identifier set, the index after the second listing
\* equals the index after the first.
C16_Idempotent == SameListingTwice => hist.done.index = hist.before.index

\* C16 witness: a table was listed twice in a row with the same non-empty set
C16_Witness == SameListingTwice /\ hist.done.names # {}

\* C17: the query text of a table listing is rejected by the backend or reads
\* the table the listing is for.
C17_QueryOwnTable ==
    \A w \in Workers :
        (th[w].op = "readdir" /\ th[w].path # "") =>
            \/ Parse(th[w].query).rejected
            \/ Parse(th[w].query).table = Chars(th[w].path)

Derived(w) ==
    IF th[w].path = "" THEN Decoded(hist.resp.rows)
    ELSE [i \in DOMAIN Decoded(hist.resp.rows) |-> Sprintf(Decoded(hist.resp.rows)[i])]

\* C19: with requests served one after the other, a listing whose backend call
\* reports no error works on exactly the decodable rows, in order, however
\* many rows fail to decode; one whose call reports an error works on no
\* element and stores nothing.
C19_SkipUndecodable ==
    \A w \in Workers :
        Serving(w) =>
            IF Failed
            THEN th[w].elements = <<>> /\ th[w].pc = "done" /\ Index = hist.at
            ELSE th[w].elements = Derived(w) /\ th[w].errno # "ENOENT"

\* C19 witness: a listing has replied on an answer whose first row failed to
\* decode and whose second row decoded
C19_Witness ==
    \E w \in Workers :
        /\ Serving(w) /\ th[w].pc = "done" /\ th[w].errno = "OK"
        /\ Len(hist.resp.rows) = 2
        /\ ~hist.resp.rows[1].ok /\ hist.resp.rows[2].ok
        /\ Len(th[w].list) = 1

\* C20: with requests served one after the other, every table directory inode
\* and every getRecordIDs call is for a name that an earlier getTables call
\* returned.
C20_KnownTable ==
    /\ \A n \in nodes : n.mode = dirMode => n.path \in hist.everTables
    /\ \A w \in Workers :
         (th[w].op = "readdir" /\ th[w].path # "") => th[w].path \in hist.everTables

\* C20 witness: getRecordIDs has been called for a table that is no longer in
\* the index
C20_Witness ==
    \E w \in Workers :
        /\ th[w].op = "readdir" /\ th[w].path # "" /\ th[w].query # NoQuery
        /\ ~MapHas(tableMap, th[w].path)

====
